---- MODULE Spec2Model ----
(***************************************************************************)
(* Model of the CERN injector chain simulator (class InjectorChain of      *)
(* src/injector_model/injector_model.py).                                  *)
(*                                                                         *)
(* One simulator object is modelled.  Its attributes are the fields of    *)
(* the record `self`; a Python attribute that has not been assigned yet   *)
(* is absent from DOMAIN self.  Every method is an operator that takes    *)
(* the object and returns the updated object together with the exception  *)
(* it raised (if any) and its return value; an action is one call of a    *)
(* public method by the caller, who may catch an exception and go on      *)
(* using the object.                                                      *)
(*                                                                         *)
(* Floating point numbers are fixed-point integers, rounded to nearest:   *)
(*   - dimensionless numbers (gamma, beta, efficiencies, ratios) in       *)
(*     thousandths (Scale),                                                *)
(*   - masses and energies in 1e-4 GeV,                                    *)
(*   - bunch and charge intensities in 1e5 particles,                      *)
(*   - Linac3 current in uA and pulse length in us,                        *)
(* and NaN is a value of its own that every operation propagates the way  *)
(* IEEE arithmetic, Python's min and numpy's min do.                      *)
(***************************************************************************)
EXTENDS Integers, Sequences, FiniteSets, TLC

VARIABLES self, constructed, args, op, raised, ret

vars == <<self, constructed, args, op, raised, ret>>

-----------------------------------------------------------------------------
(* Floating point arithmetic                                               *)

\* three decimal digits
Scale == 10 ^ 3

NaN == 0 - 1

None == [none |-> TRUE]

IsNum(x) == x # NaN

\* a * b of two dimensionless numbers, or of a quantity and a dimensionless number
FMul(a, b) ==
  IF a = NaN \/ b = NaN THEN NaN ELSE (a * b + Scale \div 2) \div Scale

\* a / b of two quantities of the same unit: a dimensionless number
FDiv(a, b) ==
  IF a = NaN \/ b = NaN THEN NaN
  ELSE (a \div b) * Scale + ((a % b) * Scale + b \div 2) \div b

\* quantity times a unit-carrying integer (Nb * Q)
NMul(a, b) ==
  IF a = NaN \/ b = NaN THEN NaN ELSE a * b

\* quantity divided by a plain count (... / self.LEIR_bunches)
NDiv(a, n) ==
  IF a = NaN \/ n = NaN THEN NaN ELSE (a + n \div 2) \div n

\* Python's a < b on floats: False as soon as one side is NaN
Lt(a, b) == a # NaN /\ b # NaN /\ a < b

\* Python's builtin min(a, b): b replaces a only if b < a
PyMin(a, b) == IF Lt(b, a) THEN b ELSE a

\* numpy's np.min([a, b]): NaN propagates
NpMin(a, b) ==
  IF a = NaN \/ b = NaN THEN NaN ELSE IF b < a THEN b ELSE a

RECURSIVE SqrtSearch(_, _)
\* floor of the square root of n > 0 by Newton's iteration from x > 0,
\* x * x >= n
SqrtSearch(n, x) ==
  LET y == (x + n \div x) \div 2
  IN IF y >= x THEN x ELSE SqrtSearch(n, y)

\* np.sqrt(x) of a dimensionless number: NaN for a negative argument
FSqrt(x) ==
  IF x = NaN \/ x < 0 THEN NaN
  ELSE IF x = 0 THEN 0
  ELSE LET n == x * Scale
           r == SqrtSearch(n, IF n < 2 ^ 20 THEN 2 ^ 10 ELSE 46341)
       IN IF n - r * r > r THEN r + 1 ELSE r

\* int(x): raises ValueError on NaN
IntRaises(x) == x = NaN

-----------------------------------------------------------------------------
(* Inputs: the ion property table and the table of precomputed gammas      *)

MaxPulses == 1
MaxBunches == 1
MaxSplitting == 1
MaxTableLen == 2

Ions == {"Pb", "O", "Ar"}

RefTypes == {"Pb", "Ar"}

RequiredFields ==
  {"mass", "Z", "A", "Q", "current", "pulseLength", "strip_eff"}

\* A column of the ion table.  A cell that is missing in the table is NaN:
\* "Ar" lacks its LEIR-PS stripping efficiency, and leaves the source fully
\* stripped (Q = Z).  The mass of "O" is 4/54 of the reference mass: O4+ has
\* the charge-to-mass ratio of Pb54+.
IonColumn(ion) ==
  CASE ion = "Pb" -> [mass |-> 1936870, Z |-> 82, A |-> 208, Q |-> 54,
                      current |-> 70, pulseLength |-> 200, strip_eff |-> 900]
    [] ion = "O"  -> [mass |-> 143472, Z |-> 8, A |-> 16, Q |-> 4,
                      current |-> 20, pulseLength |-> 200, strip_eff |-> 800]
    [] ion = "Ar" -> [mass |-> 372000, Z |-> 18, A |-> 40, Q |-> 18,
                      current |-> 60, pulseLength |-> 200, strip_eff |-> NaN]

MissingFields(ion) == {f \in RequiredFields : IonColumn(ion)[f] = NaN}

RECURSIVE SeqsOver(_, _)
\* the sequences of distinct elements of S of length 1..n
SeqsOver(S, n) ==
  IF n = 0 THEN {}
  ELSE LET shorter == SeqsOver(S, n - 1)
       IN {<<x>> : x \in S} \cup shorter \cup
          {Append(t, x) : <<t, x>> \in
             {p \in shorter \X S : \A i \in 1..Len(p[1]) : p[1][i] # p[2]}}

IonTables == SeqsOver(Ions, MaxTableLen)

Columns(table) == {table[i] : i \in 1..Len(table)}

GammaEntry(li, le, pi, pe, si, se) ==
  [LEIR_gamma_inj |-> li, LEIR_gamma_extr |-> le, PS_gamma_inj |-> pi,
   PS_gamma_extr |-> pe, SPS_gamma_inj |-> si, SPS_gamma_extr |-> se]

KeyOf(Q, ion, A) == <<Q, ion, A>>

PbEntry == GammaEntry(1005, 1078, 1078, 7336, 7336, 190436)
OEntry == GammaEntry(1004, 1077, 1077, 7050, 7050, 183000)

\* "Ar" has no entry
GoodEnergyData ==
  (KeyOf(54, "Pb", 208) :> PbEntry) @@ (KeyOf(4, "O", 16) :> OEntry)

\* the files of precomputed gammas the simulator may be given: a sound one,
\* and one in which the LEIR extraction gamma of "O" is less than 1
EnergyTables ==
  {GoodEnergyData,
   [GoodEnergyData EXCEPT ![KeyOf(4, "O", 16)].LEIR_gamma_extr = 900]}

-----------------------------------------------------------------------------
(* Results of method calls                                                 *)

Ok(s, v) == [self |-> s, raised |-> "none", ret |-> v]
Raise(s, exc) == [self |-> s, raised |-> exc, ret |-> None]

Has(s, attr) == attr \in DOMAIN s

-----------------------------------------------------------------------------
(* InjectorChain.load_ion_energy                                           *)

\* load_ion_energy with self.ion_energy_data.reindex([key]) in place of
\* .loc[key]: a key without entry gives a row of NaN and no exception
load_ion_energy_reindex(s) ==
  IF IntRaises(s.Q) \/ IntRaises(s.A) THEN Raise(s, "ValueError")
  ELSE LET key == KeyOf(s.Q, s.ion_type, s.A)
           ion_energy == IF key \in DOMAIN s.ion_energy_data
                         THEN s.ion_energy_data[key]
                         ELSE GammaEntry(NaN, NaN, NaN, NaN, NaN, NaN)
       IN Ok([LEIR_gamma_inj_ref |-> ion_energy.LEIR_gamma_inj,
              LEIR_gamma_extr_ref |-> ion_energy.LEIR_gamma_extr,
              PS_gamma_inj_ref |-> ion_energy.PS_gamma_inj,
              PS_gamma_extr_ref |-> ion_energy.PS_gamma_extr,
              SPS_gamma_inj_ref |-> ion_energy.SPS_gamma_inj,
              SPS_gamma_extr_ref |-> ion_energy.SPS_gamma_extr] @@ s,
             None)

load_ion_energy(s) ==
  IF IntRaises(s.Q) \/ IntRaises(s.A) THEN Raise(s, "ValueError")
  ELSE LET key == KeyOf(s.Q, s.ion_type, s.A)
       IN IF key \notin DOMAIN s.ion_energy_data THEN Raise(s, "KeyError")
          ELSE LET ion_energy == s.ion_energy_data[key]
               IN Ok([LEIR_gamma_inj_ref |-> ion_energy.LEIR_gamma_inj,
                      LEIR_gamma_extr_ref |-> ion_energy.LEIR_gamma_extr,
                      PS_gamma_inj_ref |-> ion_energy.PS_gamma_inj,
                      PS_gamma_extr_ref |-> ion_energy.PS_gamma_extr,
                      SPS_gamma_inj_ref |-> ion_energy.SPS_gamma_inj,
                      SPS_gamma_extr_ref |-> ion_energy.SPS_gamma_extr] @@ s,
                     None)

(* InjectorChain.init_ion                                                  *)

init_ion(s, ion_type) ==
  LET s1 == [ion_type |-> ion_type] @@ s
  IN IF ion_type \notin Columns(s.full_ion_data) THEN Raise(s1, "KeyError")
     ELSE LET ion_data == IonColumn(ion_type)
              s2 == [ion_data |-> ion_data,
                     mass_GeV |-> ion_data.mass,
                     Z |-> ion_data.Z,
                     A |-> ion_data.A,
                     Q |-> ion_data.Q,
                     linac3_current |-> ion_data.current,
                     linac3_pulseLength |-> ion_data.pulseLength,
                     LEIR_injection_efficiency |-> 500,
                     LEIR_transmission |-> 800,
                     LEIR_PS_stripping_efficiency |-> ion_data.strip_eff,
                     PS_transmission |-> 900,
                     PS_SPS_transmission_efficiency |-> 1000,
                     PS_SPS_strip |-> ~s.LEIR_PS_strip,
                     PS_SPS_stripping_efficiency |-> 900,
                     SPS_transmission |-> 620,
                     SPS_slipstacking_transmission |-> 1000] @@ s1
          IN IF s.use_gammas_ref THEN load_ion_energy(s2) ELSE Ok(s2, None)


-----------------------------------------------------------------------------
(* InjectorChain.beta: np.sqrt(1 - 1/gamma**2).  gamma**2 = 0 gives        *)
(* 1/0 = inf in numpy, 1 - inf = -inf and sqrt(-inf) = NaN.                *)

beta(gamma) ==
  IF gamma = NaN THEN NaN
  ELSE LET g2 == FMul(gamma, gamma)
       IN IF g2 = 0 THEN NaN ELSE FSqrt(Scale - FDiv(Scale, g2))

(* InjectorChain.linearIntensityLimit                                      *)

\* lines 153-156 with the two branches exchanged
linearIntensityLimit_exchanged(s, m, gamma, Nb_0, charge_0, m_0, gamma_0, fully_stripped) ==
  LET charge == IF fully_stripped THEN s.Q ELSE s.Z
      beta_0 == beta(gamma_0)
      beta_ == beta(gamma)
      cratio == FDiv(charge_0, charge)
      gratio == FDiv(gamma, gamma_0)
      linearIntensityFactor ==
        FMul(FMul(FMul(FDiv(m, m_0), FMul(cratio, cratio)),
                  FDiv(beta_, beta_0)),
             FMul(gratio, gratio))
  IN FMul(Nb_0, linearIntensityFactor)

linearIntensityLimit(s, m, gamma, Nb_0, charge_0, m_0, gamma_0, fully_stripped) ==
  LET charge == IF fully_stripped THEN s.Z ELSE s.Q
      beta_0 == beta(gamma_0)
      beta_ == beta(gamma)
      cratio == FDiv(charge_0, charge)
      gratio == FDiv(gamma, gamma_0)
      linearIntensityFactor ==
        FMul(FMul(FMul(FDiv(m, m_0), FMul(cratio, cratio)),
                  FDiv(beta_, beta_0)),
             FMul(gratio, gratio))
  IN FMul(Nb_0, linearIntensityFactor)

(* InjectorChain.ion0_referenceValues                                      *)

\* lines 182-191: the kinetic energies per nucleon, in 1e-4 GeV
KineticEnergies(s) ==
  [E_kin_per_A_LEIR_inj |-> 42,
   E_kin_per_A_LEIR_extr |-> 722,
   E_kin_per_A_PS_inj |-> 722,
   E_kin_per_A_PS_extr |-> 59000,
   E_kin_per_A_SPS_inj |-> 59000,
   E_kin_per_A_SPS_extr |-> 1764000] @@ s

\* lines 196-221: the branch of the reference ion 'Pb'
PbReferenceValues(s) ==
  LET m0_GeV == 1936870
      Nq0_LEIR_extr == 1000000
      Q0_LEIR == 54
      Nq0_PS_extr == 600000
      Q0_PS == 54
      SPS_transmission ==
        IF ~s.account_for_SPS_transmission THEN 1000 ELSE s.SPS_transmission
      Nb0_SPS_extr == FDiv(2210, SPS_transmission)
      Q0_SPS == 82
  IN [m0_GeV |-> m0_GeV,
      Z0 |-> 82,
      Nq0_LEIR_extr |-> Nq0_LEIR_extr,
      Q0_LEIR |-> Q0_LEIR,
      Nb0_LEIR_extr |-> NDiv(Nq0_LEIR_extr, Q0_LEIR),
      gamma0_LEIR_inj |-> FDiv(m0_GeV + s.E_kin_per_A_LEIR_inj * 208, m0_GeV),
      gamma0_LEIR_extr |-> FDiv(m0_GeV + s.E_kin_per_A_LEIR_extr * 208, m0_GeV),
      Nq0_PS_extr |-> Nq0_PS_extr,
      Q0_PS |-> Q0_PS,
      Nb0_PS_extr |-> NDiv(Nq0_PS_extr, Q0_PS),
      gamma0_PS_inj |-> FDiv(m0_GeV + s.E_kin_per_A_PS_inj * 208, m0_GeV),
      gamma0_PS_extr |-> FDiv(m0_GeV + s.E_kin_per_A_PS_extr * 208, m0_GeV),
      SPS_transmission |-> SPS_transmission,
      Nb0_SPS_extr |-> Nb0_SPS_extr,
      Q0_SPS |-> Q0_SPS,
      Nq0_SPS_extr |-> NMul(Nb0_SPS_extr, Q0_SPS),
      gamma0_SPS_inj |-> FDiv(m0_GeV + s.E_kin_per_A_SPS_inj * 208, m0_GeV),
      gamma0_SPS_extr |-> FDiv(m0_GeV + s.E_kin_per_A_SPS_extr * 208, m0_GeV)] @@ s

\* ion0_referenceValues without the test of self.ion_type_ref
ion0_referenceValues_anyref(s) ==
  Ok(PbReferenceValues(KineticEnergies(s)), None)

ion0_referenceValues(s) ==
  IF s.ion_type_ref = "Pb"
  THEN Ok(PbReferenceValues(KineticEnergies(s)), None)
  ELSE Raise(KineticEnergies(s), "ValueError")

\* the attributes ion0_referenceValues assigns in its 'Pb' branch
ReferenceAttrs ==
  {"m0_GeV", "Z0", "Nq0_LEIR_extr", "Q0_LEIR", "Nb0_LEIR_extr",
   "gamma0_LEIR_inj", "gamma0_LEIR_extr", "Nq0_PS_extr", "Q0_PS",
   "Nb0_PS_extr", "gamma0_PS_inj", "gamma0_PS_extr", "Nb0_SPS_extr",
   "Q0_SPS", "Nq0_SPS_extr", "gamma0_SPS_inj", "gamma0_SPS_extr"}

(* gamma = (mass + E_kin_per_A * A) / mass, the closed form of the stages  *)

\* the closed form without the rest mass in the numerator
GammaOf_kinetic(mass, E_kin_per_A, A) ==
  IF mass = NaN \/ A = NaN THEN NaN
  ELSE FDiv(E_kin_per_A * A, mass)

GammaOf(mass, E_kin_per_A, A) ==
  IF mass = NaN \/ A = NaN THEN NaN
  ELSE FDiv(mass + E_kin_per_A * A, mass)

(* InjectorChain.leir                                                      *)

leir(s) ==
  LET s1 == IF s.use_gammas_ref
            THEN [gamma_LEIR_inj |-> s.LEIR_gamma_inj_ref,
                  gamma_LEIR_extr |-> s.LEIR_gamma_extr_ref] @@ s
            ELSE [gamma_LEIR_inj |-> GammaOf(s.mass_GeV, s.E_kin_per_A_LEIR_inj, s.A),
                  gamma_LEIR_extr |-> GammaOf(s.mass_GeV, s.E_kin_per_A_LEIR_extr, s.A)] @@ s
      Nb_LEIR_extr ==
        linearIntensityLimit(s1, s1.mass_GeV, s1.gamma_LEIR_extr, s1.Nb0_LEIR_extr,
                             s1.Q0_LEIR, s1.m0_GeV, s1.gamma0_LEIR_extr, FALSE)
  IN [Nb_LEIR_extr |-> Nb_LEIR_extr,
      Nq_LEIR_extr |-> NMul(Nb_LEIR_extr, s1.Q)] @@ s1

(* InjectorChain.ps                                                        *)

ps(s) ==
  LET s1 == IF s.use_gammas_ref
            THEN [gamma_PS_inj |-> s.PS_gamma_inj_ref,
                  gamma_PS_extr |-> s.PS_gamma_extr_ref] @@ s
            ELSE [gamma_PS_inj |-> GammaOf(s.mass_GeV, s.E_kin_per_A_PS_inj, s.A),
                  gamma_PS_extr |-> GammaOf(s.mass_GeV, s.E_kin_per_A_PS_extr, s.A)] @@ s
      Nb_PS_extr ==
        linearIntensityLimit(s1, s1.mass_GeV, s1.gamma_PS_extr, s1.Nb0_PS_extr,
                             s1.Q0_PS, s1.m0_GeV, s1.gamma0_PS_extr, FALSE)
  IN [Nb_PS_extr |-> Nb_PS_extr,
      Nq_PS_extr |-> NMul(Nb_PS_extr, s1.Q)] @@ s1

(* The rigidity-preserving SPS injection gamma of InjectorChain.sps        *)

\* lines 323-326 with the sum the comment of line 322 writes
RigidityGamma_sum(s) ==
  LET charge == IF s.LEIR_PS_strip THEN s.Z ELSE s.Q
      r == FDiv(FDiv(charge, 54), FDiv(s.mass_GeV, s.m0_GeV))
  IN FSqrt(Scale + FMul(r, r)
                 + FMul(s.gamma0_SPS_inj, s.gamma0_SPS_inj) - Scale)

RigidityGamma(s) ==
  LET charge == IF s.LEIR_PS_strip THEN s.Z ELSE s.Q
      r == FDiv(FDiv(charge, 54), FDiv(s.mass_GeV, s.m0_GeV))
  IN FSqrt(Scale + FMul(FMul(r, r),
                        FMul(s.gamma0_SPS_inj, s.gamma0_SPS_inj) - Scale))

(* InjectorChain.sps                                                       *)

\* sps assigning its injection gamma to self.gamma0_SPS_inj as well
sps_overwrite(s) ==
  LET s1 == IF s.use_gammas_ref
            THEN [gamma_SPS_inj |-> s.SPS_gamma_inj_ref,
                  gamma_SPS_extr |-> s.SPS_gamma_extr_ref] @@ s
            ELSE [gamma_SPS_inj |->
                    IF s.use_Roderiks_gamma THEN RigidityGamma(s)
                    ELSE GammaOf(s.mass_GeV, s.E_kin_per_A_SPS_inj, s.A),
                  gamma_SPS_extr |-> GammaOf(s.mass_GeV, s.E_kin_per_A_SPS_extr, s.A)] @@ s
      Nb_SPS_extr ==
        linearIntensityLimit(s1, s1.mass_GeV, s1.gamma_SPS_inj, s1.Nb0_SPS_extr,
                             s1.Q0_SPS, s1.m0_GeV, s1.gamma0_SPS_inj, TRUE)
  IN [Nb_SPS_extr |-> Nb_SPS_extr,
      Nq_SPS_extr |-> NMul(Nb_SPS_extr, s1.Z),
      gamma0_SPS_inj |-> s1.gamma_SPS_inj] @@ s1

sps(s) ==
  LET s1 == IF s.use_gammas_ref
            THEN [gamma_SPS_inj |-> s.SPS_gamma_inj_ref,
                  gamma_SPS_extr |-> s.SPS_gamma_extr_ref] @@ s
            ELSE [gamma_SPS_inj |->
                    IF s.use_Roderiks_gamma THEN RigidityGamma(s)
                    ELSE GammaOf(s.mass_GeV, s.E_kin_per_A_SPS_inj, s.A),
                  gamma_SPS_extr |-> GammaOf(s.mass_GeV, s.E_kin_per_A_SPS_extr, s.A)] @@ s
      Nb_SPS_extr ==
        linearIntensityLimit(s1, s1.mass_GeV, s1.gamma_SPS_inj, s1.Nb0_SPS_extr,
                             s1.Q0_SPS, s1.m0_GeV, s1.gamma0_SPS_inj, TRUE)
  IN [Nb_SPS_extr |-> Nb_SPS_extr,
      Nq_SPS_extr |-> NMul(Nb_SPS_extr, s1.Z)] @@ s1

(* InjectorChain.simulate_injection_SpaceCharge_limit: linac3, the two     *)
(* stripper foils and space_charge_tune_shift are empty methods.           *)

simulate_injection_SpaceCharge_limit(s) == sps(ps(leir(s)))


-----------------------------------------------------------------------------
(* InjectorChain.calculate_LHC_bunch_intensity                             *)

\* 1e-12 C (1 uA during 1 us) over the elementary charge e, in 1e5 charges
ChargesPerPicoCoulomb == 62

\* (linac3_current * linac3_pulseLength) / (Q * e)
IonsPerPulse(current, pulseLength, Q) ==
  IF current = NaN \/ pulseLength = NaN \/ Q = NaN THEN NaN
  ELSE (current * pulseLength * ChargesPerPicoCoulomb + Q \div 2) \div Q

\* math.ceil(x) of a dimensionless number
Ceil(x) == (x + Scale - 1) \div Scale

\* Python's a == b on floats
Eq(a, b) == a # NaN /\ b # NaN /\ a = b

\* lines 414-422: the LEIR space-charge limit
SpaceChargeLimitLEIR(s) ==
  linearIntensityLimit(s, s.mass_GeV, s.gamma_LEIR_extr, s.Nb0_LEIR_extr,
                       s.Q0_LEIR, s.m0_GeV, s.gamma0_LEIR_extr, FALSE)

\* line 424 without the injection efficiency
PulsesNeeded_lossless(s, spaceChargeLimitLEIR, ionsPerPulseLinac3) ==
  FDiv(spaceChargeLimitLEIR, ionsPerPulseLinac3)

\* line 424, the argument of math.ceil
PulsesNeeded(s, spaceChargeLimitLEIR, ionsPerPulseLinac3) ==
  FDiv(spaceChargeLimitLEIR, FMul(ionsPerPulseLinac3, s.LEIR_injection_efficiency))

\* line 424: math.ceil raises ValueError on NaN
CeilRaises(s, spaceChargeLimitLEIR, ionsPerPulseLinac3) ==
  s.nPulsesLEIR = 0 /\ PulsesNeeded(s, spaceChargeLimitLEIR, ionsPerPulseLinac3) = NaN

\* line 424 without the cap of min(7, ...)
NPulsesLEIR_nocap(s, spaceChargeLimitLEIR, ionsPerPulseLinac3) ==
  IF s.nPulsesLEIR = 0
  THEN Ceil(PulsesNeeded(s, spaceChargeLimitLEIR, ionsPerPulseLinac3))
  ELSE s.nPulsesLEIR

\* line 424: the number of LEIR pulses
NPulsesLEIR(s, spaceChargeLimitLEIR, ionsPerPulseLinac3) ==
  IF s.nPulsesLEIR = 0
  THEN PyMin(7, Ceil(PulsesNeeded(s, spaceChargeLimitLEIR, ionsPerPulseLinac3)))
  ELSE s.nPulsesLEIR

\* line 425
TotalIntLEIR(s, ionsPerPulseLinac3, nPulsesLEIR) ==
  FMul(NMul(ionsPerPulseLinac3, nPulsesLEIR), s.LEIR_injection_efficiency)

\* line 428
IonsPerBunchExtractedLEIR(s, totalIntLEIR, spaceChargeLimitLEIR) ==
  NDiv(FMul(s.LEIR_transmission, NpMin(totalIntLEIR, spaceChargeLimitLEIR)),
       s.LEIR_bunches)

\* line 429
IonsPerBunchExtractedPS(s, ionsPerBunchExtractedLEIR) ==
  NDiv(FMul(FMul(ionsPerBunchExtractedLEIR,
                 IF s.LEIR_PS_strip THEN s.LEIR_PS_stripping_efficiency
                 ELSE Scale),
            s.PS_transmission),
       s.PS_splitting)

\* lines 431-439 with fully_stripped = False as in InjectorChain.ps
SpaceChargeLimitPS_partial(s) ==
  linearIntensityLimit(s, s.mass_GeV, s.gamma_PS_inj, s.Nb0_PS_extr,
                       s.Q0_PS, s.m0_GeV, s.gamma0_PS_inj, FALSE)

\* lines 431-439: the PS space-charge limit
SpaceChargeLimitPS(s) ==
  linearIntensityLimit(s, s.mass_GeV, s.gamma_PS_inj, s.Nb0_PS_extr,
                       s.Q0_PS, s.m0_GeV, s.gamma0_PS_inj, s.LEIR_PS_strip)

\* lines 442-448 with the test of the option inverted
IonsPerBunchPS_inverted(s, spaceChargeLimitPS, ionsPerBunchExtractedPS) ==
  IF ~s.consider_PS_space_charge_limit
  THEN PyMin(spaceChargeLimitPS, ionsPerBunchExtractedPS)
  ELSE ionsPerBunchExtractedPS

\* lines 442-448 capping whatever the option says
IonsPerBunchPS_always(s, spaceChargeLimitPS, ionsPerBunchExtractedPS) ==
  PyMin(spaceChargeLimitPS, ionsPerBunchExtractedPS)

\* lines 442-448: what the PS hands over to the SPS
IonsPerBunchPS(s, spaceChargeLimitPS, ionsPerBunchExtractedPS) ==
  IF s.consider_PS_space_charge_limit
  THEN PyMin(spaceChargeLimitPS, ionsPerBunchExtractedPS)
  ELSE ionsPerBunchExtractedPS

\* line 452 without 'or self.LEIR_PS_strip'
IonsPerBunchSPSinj_nostrip(s, ionsPerBunchPS) ==
  FMul(ionsPerBunchPS,
       IF Eq(s.Z, s.Q)
       THEN s.PS_SPS_transmission_efficiency
       ELSE s.PS_SPS_stripping_efficiency)

\* line 452
IonsPerBunchSPSinj(s, ionsPerBunchPS) ==
  FMul(ionsPerBunchPS,
       IF Eq(s.Z, s.Q) \/ s.LEIR_PS_strip
       THEN s.PS_SPS_transmission_efficiency
       ELSE s.PS_SPS_stripping_efficiency)

\* lines 453-461: the SPS space-charge limit
SpaceChargeLimitSPS(s) ==
  linearIntensityLimit(s, s.mass_GeV, s.gamma_SPS_inj, s.Nb0_SPS_extr,
                       s.Q0_SPS, s.m0_GeV, s.gamma0_SPS_inj, TRUE)

\* line 462 without the SPS space-charge limit
IonsPerBunchLHC_nolimit(s, spaceChargeLimitSPS, ionsPerBunchSPSinj) ==
  FMul(FMul(ionsPerBunchSPSinj, s.SPS_transmission),
       s.SPS_slipstacking_transmission)

\* line 462
IonsPerBunchLHC(s, spaceChargeLimitSPS, ionsPerBunchSPSinj) ==
  FMul(FMul(PyMin(spaceChargeLimitSPS, ionsPerBunchSPSinj), s.SPS_transmission),
       s.SPS_slipstacking_transmission)

\* lines 414-422, 431-439 and 453-461: the three space-charge limits, each a
\* call of linearIntensityLimit on the gammas the stages stored
SpaceChargeLimits(s) ==
  [LEIR |-> SpaceChargeLimitLEIR(s),
   PS |-> SpaceChargeLimitPS(s),
   SPS |-> SpaceChargeLimitSPS(s)]

\* lines 496-497 without the test of self.LEIR_PS_strip
WithStrippingEfficiency_always(s, result) ==
  [LEIR_PS_strippingEfficiency |-> s.LEIR_PS_stripping_efficiency] @@ result

\* lines 496-497: the field a simulator with early stripping adds to the record
WithStrippingEfficiency(s, result) ==
  IF s.LEIR_PS_strip
  THEN [LEIR_PS_strippingEfficiency |-> s.LEIR_PS_stripping_efficiency] @@ result
  ELSE result

\* lines 413-498 after the stages have run: limit holds the three
\* space-charge limits
PropagateBunches(s, limit) ==
  LET ionsPerPulseLinac3 == IonsPerPulse(s.linac3_current, s.linac3_pulseLength, s.Q)
      nPulsesLEIR == NPulsesLEIR(s, limit.LEIR, ionsPerPulseLinac3)
      totalIntLEIR == TotalIntLEIR(s, ionsPerPulseLinac3, nPulsesLEIR)
      ionsPerBunchExtractedLEIR ==
        IonsPerBunchExtractedLEIR(s, totalIntLEIR, limit.LEIR)
      ionsPerBunchExtractedPS == IonsPerBunchExtractedPS(s, ionsPerBunchExtractedLEIR)
      ionsPerBunchPS == IonsPerBunchPS(s, limit.PS, ionsPerBunchExtractedPS)
      ionsPerBunchSPSinj == IonsPerBunchSPSinj(s, ionsPerBunchPS)
      ionsPerBunchLHC == IonsPerBunchLHC(s, limit.SPS, ionsPerBunchSPSinj)
      result ==
        [chargeBeforeStrip |-> s.Q,
         atomicNumber |-> s.Z,
         massNumber |-> s.A,
         Linac3_current |-> s.linac3_current,
         Linac3_pulse_length |-> s.linac3_pulseLength,
         Linac3_ionsPerPulse |-> ionsPerPulseLinac3,
         LEIR_numberofPulses |-> nPulsesLEIR,
         LEIR_injection_efficiency |-> s.LEIR_injection_efficiency,
         LEIR_maxIntensity |-> totalIntLEIR,
         LEIR_space_charge_limit |-> limit.LEIR,
         LEIR_splitting |-> s.LEIR_bunches,
         LEIR_gamma |-> s.gamma_LEIR_inj,
         LEIR_extractedIonPerBunch |-> ionsPerBunchExtractedLEIR,
         LEIR_transmission |-> s.LEIR_transmission,
         PS_space_charge_limit |-> limit.PS,
         PS_splitting |-> s.PS_splitting,
         PS_transmission |-> s.PS_transmission,
         PS_ionsExtractedPerBunch |-> ionsPerBunchExtractedPS,
         gammaInjSPS |-> s.gamma_SPS_inj,
         PS_SPS_stripping_efficiency |-> s.PS_SPS_stripping_efficiency,
         SPS_maxIntensityPerBunch |-> ionsPerBunchSPSinj,
         SPS_spaceChargeLimit |-> limit.SPS,
         SPS_inj_gamma |-> s.gamma_SPS_inj,
         SPS_accIntensity |-> PyMin(limit.SPS, ionsPerBunchSPSinj),
         SPS_transmission |-> s.SPS_transmission,
         LHC_ionsPerBunch |-> ionsPerBunchLHC,
         LHC_chargesPerBunch |-> NMul(ionsPerBunchLHC, s.Z),
         Ion |-> s.ion_type]
  IN IF CeilRaises(s, limit.LEIR, ionsPerPulseLinac3) THEN Raise(s, "ValueError")
     ELSE IF IntRaises(s.Q) \/ IntRaises(s.Z) \/ IntRaises(s.A)
     THEN Raise(s, "ValueError")
     ELSE Ok(s, WithStrippingEfficiency(s, result))

\* lines 410-498 on the object s the stages have run on
BunchIntensity(s) == PropagateBunches(s, SpaceChargeLimits(s))

calculate_LHC_bunch_intensity(s0) ==
  BunchIntensity(simulate_injection_SpaceCharge_limit(s0))

(* InjectorChain.calculate_LHC_bunch_intensity_all_ion_species: the loop   *)
(* from column i on, rows being the records appended so far.  An exception *)
(* of init_ion or of the per-ion calculation ends the call.                *)

RECURSIVE AllIonSpeciesLoop_noselect(_, _, _)
\* the loop without the call of init_ion
AllIonSpeciesLoop_noselect(s, i, rows) ==
  IF i > Len(s.full_ion_data) THEN Ok(s, rows)
  ELSE LET r2 == calculate_LHC_bunch_intensity(s)
       IN IF r2.raised # "none" THEN Raise(r2.self, r2.raised)
          ELSE AllIonSpeciesLoop_noselect(r2.self, i + 1, Append(rows, r2.ret))

RECURSIVE AllIonSpeciesLoop(_, _, _)
AllIonSpeciesLoop(s, i, rows) ==
  IF i > Len(s.full_ion_data) THEN Ok(s, rows)
  ELSE LET r1 == init_ion(s, s.full_ion_data[i])
       IN IF r1.raised # "none" THEN Raise(r1.self, r1.raised)
          ELSE LET r2 == calculate_LHC_bunch_intensity(r1.self)
               IN IF r2.raised # "none" THEN Raise(r2.self, r2.raised)
                  ELSE AllIonSpeciesLoop(r2.self, i + 1, Append(rows, r2.ret))

\* the batch selecting again, when its loop is over, the ion that was active
\* when it was called
calculate_LHC_bunch_intensity_all_ion_species_restoring(s) ==
  LET r == AllIonSpeciesLoop(s, 1, <<>>)
  IN IF r.raised # "none" THEN r
     ELSE [self |-> init_ion(r.self, s.ion_type).self,
           raised |-> r.raised,
           ret |-> r.ret]

calculate_LHC_bunch_intensity_all_ion_species(s) ==
  AllIonSpeciesLoop(s, 1, <<>>)

(* InjectorChain.simulate_SpaceCharge_intensity_limit_all_ions             *)

NaNRow == [Nb_LEIR |-> NaN, Nq_LEIR |-> NaN, Nb_PS |-> NaN, Nq_PS |-> NaN,
           Nb_SPS |-> NaN, Nq_SPS |-> NaN]

NaNGammas == [LEIR |-> NaN, PS |-> NaN, SPS |-> NaN]

\* lines 380-401: the rows of the three tables for ion_type, from the
\* object t the stages have run on
StoreIon(t, ion_type) ==
  [ion_Nb_data |->
     [t.ion_Nb_data EXCEPT ![ion_type] =
        [Nb_LEIR |-> t.Nb_LEIR_extr, Nq_LEIR |-> t.Nq_LEIR_extr,
         Nb_PS |-> t.Nb_PS_extr, Nq_PS |-> t.Nq_PS_extr,
         Nb_SPS |-> t.Nb_SPS_extr, Nq_SPS |-> t.Nq_SPS_extr]],
   ion_gamma_inj_data |->
     [t.ion_gamma_inj_data EXCEPT ![ion_type] =
        [LEIR |-> t.gamma_LEIR_inj, PS |-> t.gamma_PS_inj,
         SPS |-> t.gamma_SPS_inj]],
   ion_gamma_extr_data |->
     [t.ion_gamma_extr_data EXCEPT ![ion_type] =
        [LEIR |-> t.gamma_LEIR_extr, PS |-> t.gamma_PS_extr,
         SPS |-> t.gamma_SPS_extr]]] @@ t

RECURSIVE AllIonsLoop(_, _)
AllIonsLoop(s, i) ==
  IF i > Len(s.full_ion_data) THEN Ok(s, s.ion_Nb_data)
  ELSE LET r1 == init_ion(s, s.full_ion_data[i])
       IN IF r1.raised # "none" THEN Raise(r1.self, r1.raised)
          ELSE AllIonsLoop(StoreIon(simulate_injection_SpaceCharge_limit(r1.self),
                                    s.full_ion_data[i]),
                           i + 1)

simulate_SpaceCharge_intensity_limit_all_ions(s) ==
  LET index == Columns(s.full_ion_data)
  IN AllIonsLoop([ion_Nb_data |-> [ion \in index |-> NaNRow],
                  ion_gamma_inj_data |-> [ion \in index |-> NaNGammas],
                  ion_gamma_extr_data |-> [ion \in index |-> NaNGammas]] @@ s, 1)

-----------------------------------------------------------------------------
(* InjectorChain.__init__.  The file of precomputed gammas that read_csv   *)
(* loads is the argument ion_energy_data.                                  *)

InjectorChain(a) ==
  LET s0 == [full_ion_data |-> a.ion_data,
             LEIR_PS_strip |-> a.LEIR_PS_strip,
             use_gammas_ref |-> a.use_gammas_ref,
             ion_energy_data |-> a.ion_energy_data]
      r1 == init_ion(s0, a.ion_type)
      s1 == [debug_mode |-> FALSE,
             account_for_SPS_transmission |-> a.account_for_SPS_transmission,
             consider_PS_space_charge_limit |-> a.consider_PS_space_charge_limit,
             nPulsesLEIR |-> a.nPulsesLEIR,
             LEIR_bunches |-> a.LEIR_bunches,
             PS_splitting |-> a.PS_splitting,
             ion_type_ref |-> a.ion_type_ref] @@ r1.self
      r2 == ion0_referenceValues(s1)
  IN IF r1.raised # "none" THEN Raise(r1.self, r1.raised)
     ELSE IF r2.raised # "none" THEN Raise(r2.self, r2.raised)
     ELSE Ok([use_Roderiks_gamma |-> ~a.use_gammas_ref] @@ r2.self, None)

\* the arguments a simulator may be constructed with
ConstructorArgs ==
  {a \in [ion_type : Ions,
          ion_data : IonTables,
          ion_type_ref : RefTypes,
          nPulsesLEIR : 0..MaxPulses,
          LEIR_bunches : 1..MaxBunches,
          PS_splitting : 1..MaxSplitting,
          account_for_SPS_transmission : BOOLEAN,
          LEIR_PS_strip : BOOLEAN,
          consider_PS_space_charge_limit : BOOLEAN,
          use_gammas_ref : BOOLEAN,
          ion_energy_data : EnergyTables] :
     /\ a.ion_type \in Columns(a.ion_data)
     /\ a.ion_energy_data # GoodEnergyData =>
          a.use_gammas_ref /\ "O" \in Columns(a.ion_data)}

\* the arguments but for the ion: the ion table, the file of gammas, the options
Options(a) == [f \in DOMAIN a \ {"ion_type"} |-> a[f]]

\* the arguments of a construction with the options o and the ion ion_type
WithIon(o, ion_type) == [ion_type |-> ion_type] @@ o

-----------------------------------------------------------------------------
(* The state machine                                                       *)

Init ==
  \E a \in ConstructorArgs :
    LET r == InjectorChain(a)
    IN /\ args = Options(a)
       /\ self = r.self
       /\ constructed = (r.raised = "none")
       /\ op = [name |-> "__init__", ion |-> a.ion_type]
       /\ raised = r.raised
       /\ ret = None

\* the ion of a call that takes no argument
NoArgument == "-"

\* a call of the method name, with the ion it is given, that ends as r
Call(name, ion, r) ==
  /\ self' = r.self
  /\ op' = [name |-> name, ion |-> ion]
  /\ raised' = r.raised
  /\ ret' = r.ret
  /\ UNCHANGED <<constructed, args>>

InitIon ==
  /\ constructed
  /\ \E ion_type \in Ions : Call("init_ion", ion_type, init_ion(self, ion_type))

SimulateInjection ==
  /\ constructed
  /\ Call("simulate_injection_SpaceCharge_limit", NoArgument,
          Ok(simulate_injection_SpaceCharge_limit(self), None))

CalculateLHC ==
  /\ constructed
  /\ Call("calculate_LHC_bunch_intensity", NoArgument,
          calculate_LHC_bunch_intensity(self))

CalculateAllIonSpecies ==
  /\ constructed
  /\ Call("calculate_LHC_bunch_intensity_all_ion_species", NoArgument,
          calculate_LHC_bunch_intensity_all_ion_species(self))

SimulateAllIons ==
  /\ constructed
  /\ Call("simulate_SpaceCharge_intensity_limit_all_ions", NoArgument,
          simulate_SpaceCharge_intensity_limit_all_ions(self))

Next ==
  \/ InitIon
  \/ SimulateInjection
  \/ CalculateLHC
  \/ CalculateAllIonSpecies
  \/ SimulateAllIons

Spec == Init /\ [][Next]_vars

-----------------------------------------------------------------------------
(* linearIntensityLimit on its own: an object that has only the charges Z  *)
(* and Q the method reads, and one call with arguments of its own          *)

ScalerCharges == {54, 82}
ScalerMasses == {1936870, 372000}
ScalerGammas == {1078, 2000}
ScalerIntensities == {1, 2210, 18519}

\* the arguments of linearIntensityLimit
ScalerArgs ==
  [m : ScalerMasses, gamma : ScalerGammas, Nb_0 : ScalerIntensities,
   charge_0 : ScalerCharges, m_0 : ScalerMasses, gamma_0 : ScalerGammas,
   fully_stripped : BOOLEAN]

ScalerInit ==
  /\ \E Z \in ScalerCharges, Q \in ScalerCharges :
       /\ Q <= Z
       /\ self = [Z |-> Z, Q |-> Q, debug_mode |-> FALSE]
  /\ args \in ScalerArgs
  /\ constructed = TRUE
  /\ op = [name |-> "__init__", ion |-> NoArgument]
  /\ raised = "none"
  /\ ret = None

ScalerCall ==
  /\ op.name = "__init__"
  /\ op' = [name |-> "linearIntensityLimit", ion |-> NoArgument]
  /\ ret' = linearIntensityLimit(self, args.m, args.gamma, args.Nb_0, args.charge_0,
                                 args.m_0, args.gamma_0, args.fully_stripped)
  /\ UNCHANGED <<self, constructed, args, raised>>

ScalerNext == ScalerCall

ScalerSpec == ScalerInit /\ [][ScalerNext]_vars

-----------------------------------------------------------------------------
(* calculate_LHC_bunch_intensity stage by stage: op.at is the statement    *)
(* the call is at.  simulate_injection_SpaceCharge_limit calls linac3,     *)
(* leir, stripper_foil_leir_ps, ps, stripper_foil_ps_sps and sps (linac3    *)
(* and the foils are empty), and lines 410-498 follow.                     *)

\* no call of calculate_LHC_bunch_intensity is under way
Idle == IF "at" \in DOMAIN op THEN op.at = "done" ELSE TRUE

\* the call under way is at the statement p
At(p) == "at" \in DOMAIN op /\ op.at = p

StagesInitIon ==
  /\ constructed
  /\ Idle
  /\ \E ion_type \in Columns(args.ion_data) :
       Call("init_ion", ion_type, init_ion(self, ion_type))

\* line 410 and line 352: the call begins and runs leir
StageLeir ==
  /\ constructed
  /\ Idle
  /\ self' = leir(self)
  /\ op' = [name |-> "calculate_LHC_bunch_intensity", ion |-> NoArgument,
            at |-> "ps"]
  /\ raised' = "none"
  /\ ret' = None
  /\ UNCHANGED <<constructed, args>>

\* line 356 run where line 354 stands
StageSps_early ==
  /\ At("ps")
  /\ self' = sps(self)
  /\ op' = [op EXCEPT !.at = "aggregate"]
  /\ UNCHANGED <<constructed, args, raised, ret>>

\* line 354
StagePs ==
  /\ At("ps")
  /\ self' = ps(self)
  /\ op' = [op EXCEPT !.at = "sps"]
  /\ UNCHANGED <<constructed, args, raised, ret>>

\* line 356
StageSps ==
  /\ At("sps")
  /\ self' = sps(self)
  /\ op' = [op EXCEPT !.at = "aggregate"]
  /\ UNCHANGED <<constructed, args, raised, ret>>

\* lines 413-499
Aggregate ==
  /\ At("aggregate")
  /\ self' = BunchIntensity(self).self
  /\ op' = [op EXCEPT !.at = "done"]
  /\ raised' = BunchIntensity(self).raised
  /\ ret' = BunchIntensity(self).ret
  /\ UNCHANGED <<constructed, args>>

StagesNext ==
  \/ StagesInitIon
  \/ StageLeir
  \/ StagePs
  \/ StageSps
  \/ Aggregate

StagesSpec == Init /\ [][StagesNext]_vars


-----------------------------------------------------------------------------
(* CERN_Injector_Chain of src/Injector_Chain.py, the earlier               *)
(* implementation of the chain: no table of gammas, no PS space-charge     *)
(* limit, and 8e10 charges as PS reference.  beta and linearIntensityLimit *)
(* are the same text in the two files.                                     *)

CERN_init_ion(s, ion_type) ==
  LET s1 == [ion_type |-> ion_type] @@ s
  IN IF ion_type \notin Columns(s.full_ion_data) THEN Raise(s1, "KeyError")
     ELSE LET ion_data == IonColumn(ion_type)
          IN Ok([ion_data |-> ion_data,
                 mass_GeV |-> ion_data.mass,
                 Z |-> ion_data.Z,
                 A |-> ion_data.A,
                 Q |-> ion_data.Q,
                 linac3_current |-> ion_data.current,
                 linac3_pulseLength |-> ion_data.pulseLength,
                 LEIR_injection_efficiency |-> 500,
                 LEIR_transmission |-> 800,
                 LEIR_PS_stripping_efficiency |-> ion_data.strip_eff,
                 PS_transmission |-> 900,
                 PS_SPS_transmission_efficiency |-> 1000,
                 PS_SPS_strip |-> ~s.LEIR_PS_strip,
                 PS_SPS_stripping_efficiency |-> 900,
                 SPS_transmission |-> 620,
                 SPS_slipstacking_transmission |-> 1000] @@ s1,
                None)

CERN_linearIntensityLimit(s, m, gamma, Nb_0, charge_0, m_0, gamma_0, fully_stripped) ==
  LET charge == IF fully_stripped THEN s.Z ELSE s.Q
      beta_0 == beta(gamma_0)
      beta_ == beta(gamma)
      cratio == FDiv(charge_0, charge)
      gratio == FDiv(gamma, gamma_0)
  IN FMul(Nb_0, FMul(FMul(FMul(FDiv(m, m_0), FMul(cratio, cratio)),
                          FDiv(beta_, beta_0)),
                     FMul(gratio, gratio)))

CERN_ion0_referenceValues(s0) ==
  LET s == [E_kin_per_A_LEIR_inj |-> 42,
            E_kin_per_A_LEIR_extr |-> 722,
            E_kin_per_A_PS_inj |-> 722,
            E_kin_per_A_PS_extr |-> 59000,
            E_kin_per_A_SPS_inj |-> 59000,
            E_kin_per_A_SPS_extr |-> 1764000] @@ s0
      m0_GeV == 1936870
      SPS_transmission ==
        IF ~s.account_for_SPS_transmission THEN 1000 ELSE s.SPS_transmission
      Nb0_SPS_extr == FDiv(2210, SPS_transmission)
  IN IF s.ion_type_ref # "Pb" THEN Raise(s, "ValueError")
     ELSE Ok([m0_GeV |-> m0_GeV,
              Z0 |-> 82,
              Nq0_LEIR_extr |-> 1000000,
              Q0_LEIR |-> 54,
              Nb0_LEIR_extr |-> NDiv(1000000, 54),
              gamma0_LEIR_inj |-> FDiv(m0_GeV + s.E_kin_per_A_LEIR_inj * 208, m0_GeV),
              gamma0_LEIR_extr |-> FDiv(m0_GeV + s.E_kin_per_A_LEIR_extr * 208, m0_GeV),
              Nq0_PS_extr |-> 800000,
              Q0_PS |-> 54,
              Nb0_PS_extr |-> NDiv(800000, 54),
              gamma0_PS_inj |-> FDiv(m0_GeV + s.E_kin_per_A_PS_inj * 208, m0_GeV),
              gamma0_PS_extr |-> FDiv(m0_GeV + s.E_kin_per_A_PS_extr * 208, m0_GeV),
              SPS_transmission |-> SPS_transmission,
              Nb0_SPS_extr |-> Nb0_SPS_extr,
              Q0_SPS |-> 82,
              Nq0_SPS_extr |-> NMul(Nb0_SPS_extr, 82),
              gamma0_SPS_inj |-> FDiv(m0_GeV + s.E_kin_per_A_SPS_inj * 208, m0_GeV),
              gamma0_SPS_extr |-> FDiv(m0_GeV + s.E_kin_per_A_SPS_extr * 208, m0_GeV)] @@ s,
             None)

CERN_Injector_Chain(a) ==
  LET s0 == [full_ion_data |-> a.ion_data,
             LEIR_PS_strip |-> a.LEIR_PS_strip]
      r1 == CERN_init_ion(s0, a.ion_type)
      s1 == [debug_mode |-> FALSE,
             account_for_SPS_transmission |-> a.account_for_SPS_transmission,
             nPulsesLEIR |-> a.nPulsesLEIR,
             LEIR_bunches |-> a.LEIR_bunches,
             PS_splitting |-> a.PS_splitting,
             ion_type_ref |-> a.ion_type_ref] @@ r1.self
      r2 == CERN_ion0_referenceValues(s1)
  IN IF r1.raised # "none" THEN Raise(r1.self, r1.raised)
     ELSE IF r2.raised # "none" THEN Raise(r2.self, r2.raised)
     ELSE Ok([use_Roderiks_gamma |-> TRUE] @@ r2.self, None)

CERN_leir(s) ==
  LET gamma_LEIR_inj == GammaOf(s.mass_GeV, s.E_kin_per_A_LEIR_inj, s.A)
      gamma_LEIR_extr == GammaOf(s.mass_GeV, s.E_kin_per_A_LEIR_extr, s.A)
      Nb_LEIR_extr ==
        CERN_linearIntensityLimit(s, s.mass_GeV, gamma_LEIR_extr, s.Nb0_LEIR_extr,
                                  s.Q0_LEIR, s.m0_GeV, s.gamma0_LEIR_extr, FALSE)
  IN [gamma_LEIR_inj |-> gamma_LEIR_inj,
      gamma_LEIR_extr |-> gamma_LEIR_extr,
      Nb_LEIR_extr |-> Nb_LEIR_extr,
      Nq_LEIR_extr |-> NMul(Nb_LEIR_extr, s.Q)] @@ s

CERN_ps(s) ==
  LET gamma_PS_inj == GammaOf(s.mass_GeV, s.E_kin_per_A_PS_inj, s.A)
      gamma_PS_extr == GammaOf(s.mass_GeV, s.E_kin_per_A_PS_extr, s.A)
      Nb_PS_extr ==
        CERN_linearIntensityLimit(s, s.mass_GeV, gamma_PS_extr, s.Nb0_PS_extr,
                                  s.Q0_PS, s.m0_GeV, s.gamma0_PS_extr, FALSE)
  IN [gamma_PS_inj |-> gamma_PS_inj,
      gamma_PS_extr |-> gamma_PS_extr,
      Nb_PS_extr |-> Nb_PS_extr,
      Nq_PS_extr |-> NMul(Nb_PS_extr, s.Q)] @@ s

\* sps keeping the closed-form injection gamma of line 263
CERN_sps_closedform(s) ==
  LET gamma_SPS_inj == GammaOf(s.mass_GeV, s.E_kin_per_A_SPS_inj, s.A)
      Nb_SPS_extr ==
        CERN_linearIntensityLimit(s, s.mass_GeV, gamma_SPS_inj, s.Nb0_SPS_extr,
                                  s.Q0_SPS, s.m0_GeV, s.gamma0_SPS_inj, TRUE)
  IN [gamma_SPS_inj |-> gamma_SPS_inj,
      gamma_SPS_extr |-> GammaOf(s.mass_GeV, s.E_kin_per_A_SPS_extr, s.A),
      Nb_SPS_extr |-> Nb_SPS_extr,
      Nq_SPS_extr |-> NMul(Nb_SPS_extr, s.Z)] @@ s

CERN_sps(s) ==
  LET charge == IF s.LEIR_PS_strip THEN s.Z ELSE s.Q
      r == FDiv(FDiv(charge, 54), FDiv(s.mass_GeV, s.m0_GeV))
      gamma_SPS_inj ==
        IF s.use_Roderiks_gamma
        THEN FSqrt(Scale + FMul(FMul(r, r),
                                FMul(s.gamma0_SPS_inj, s.gamma0_SPS_inj) - Scale))
        ELSE GammaOf(s.mass_GeV, s.E_kin_per_A_SPS_inj, s.A)
      Nb_SPS_extr ==
        CERN_linearIntensityLimit(s, s.mass_GeV, gamma_SPS_inj, s.Nb0_SPS_extr,
                                  s.Q0_SPS, s.m0_GeV, s.gamma0_SPS_inj, TRUE)
  IN [gamma_SPS_inj |-> gamma_SPS_inj,
      gamma_SPS_extr |-> GammaOf(s.mass_GeV, s.E_kin_per_A_SPS_extr, s.A),
      Nb_SPS_extr |-> Nb_SPS_extr,
      Nq_SPS_extr |-> NMul(Nb_SPS_extr, s.Z)] @@ s

CERN_simulate_injection_SpaceCharge_limit(s) == CERN_sps(CERN_ps(CERN_leir(s)))

\* lines 368-376 and 388-396: the two space-charge limits of the aggregator
CERN_SpaceChargeLimits(s) ==
  [LEIR |-> CERN_linearIntensityLimit(s, s.mass_GeV, s.gamma_LEIR_extr,
                                      s.Nb0_LEIR_extr, s.Q0_LEIR, s.m0_GeV,
                                      s.gamma0_LEIR_extr, FALSE),
   SPS |-> CERN_linearIntensityLimit(s, s.mass_GeV, s.gamma_SPS_inj,
                                     s.Nb0_SPS_extr, s.Q0_SPS, s.m0_GeV,
                                     s.gamma0_SPS_inj, TRUE)]

\* lines 367-431 but for the two limits: the statements are those of
\* InjectorChain.calculate_LHC_bunch_intensity, without the PS cap
CERN_PropagateBunches(s, limit) ==
  LET ionsPerPulseLinac3 == IonsPerPulse(s.linac3_current, s.linac3_pulseLength, s.Q)
      nPulsesLEIR == NPulsesLEIR(s, limit.LEIR, ionsPerPulseLinac3)
      totalIntLEIR == TotalIntLEIR(s, ionsPerPulseLinac3, nPulsesLEIR)
      ionsPerBunchExtractedLEIR ==
        IonsPerBunchExtractedLEIR(s, totalIntLEIR, limit.LEIR)
      ionsPerBunchExtractedPS == IonsPerBunchExtractedPS(s, ionsPerBunchExtractedLEIR)
      ionsPerBunchSPSinj == IonsPerBunchSPSinj(s, ionsPerBunchExtractedPS)
      ionsPerBunchLHC == IonsPerBunchLHC(s, limit.SPS, ionsPerBunchSPSinj)
      result ==
        [chargeBeforeStrip |-> s.Q,
         atomicNumber |-> s.Z,
         massNumber |-> s.A,
         Linac3_current |-> s.linac3_current,
         Linac3_pulse_length |-> s.linac3_pulseLength,
         Linac3_ionsPerPulse |-> ionsPerPulseLinac3,
         LEIR_numberofPulses |-> nPulsesLEIR,
         LEIR_injection_efficiency |-> s.LEIR_injection_efficiency,
         LEIR_maxIntensity |-> totalIntLEIR,
         LEIR_space_charge_limit |-> limit.LEIR,
         LEIR_splitting |-> s.LEIR_bunches,
         LEIR_gamma |-> s.gamma_LEIR_inj,
         LEIR_extractedIonPerBunch |-> ionsPerBunchExtractedLEIR,
         LEIR_transmission |-> s.LEIR_transmission,
         PS_splitting |-> s.PS_splitting,
         PS_transmission |-> s.PS_transmission,
         PS_ionsExtractedPerBunch |-> ionsPerBunchExtractedPS,
         gammaInjSPS |-> s.gamma_SPS_inj,
         PS_SPS_stripping_efficiency |-> s.PS_SPS_stripping_efficiency,
         SPS_maxIntensityPerBunch |-> ionsPerBunchSPSinj,
         SPS_spaceChargeLimit |-> limit.SPS,
         SPS_inj_gamma |-> s.gamma_SPS_inj,
         SPS_accIntensity |-> PyMin(limit.SPS, ionsPerBunchSPSinj),
         SPS_transmission |-> s.SPS_transmission,
         LHC_ionsPerBunch |-> ionsPerBunchLHC,
         LHC_chargesPerBunch |-> NMul(ionsPerBunchLHC, s.Z),
         Ion |-> s.ion_type]
  IN IF CeilRaises(s, limit.LEIR, ionsPerPulseLinac3) THEN Raise(s, "ValueError")
     ELSE IF IntRaises(s.Q) \/ IntRaises(s.Z) \/ IntRaises(s.A)
     THEN Raise(s, "ValueError")
     ELSE Ok(s, WithStrippingEfficiency(s, result))

CERN_BunchIntensity(s) == CERN_PropagateBunches(s, CERN_SpaceChargeLimits(s))

CERN_calculate_LHC_bunch_intensity(s0) ==
  CERN_BunchIntensity(CERN_simulate_injection_SpaceCharge_limit(s0))

-----------------------------------------------------------------------------
(* The two implementations side by side: both are constructed with the     *)
(* same arguments and given the same calls.  self, raised and ret hold one *)
(* value per class.                                                        *)

Both(new, old) == [InjectorChain |-> new, CERN_Injector_Chain |-> old]

\* the arguments the two constructors share, InjectorChain in formula mode and
\* without the PS space-charge limit
TwinArgs ==
  {a \in ConstructorArgs :
     /\ ~a.use_gammas_ref
     /\ ~a.consider_PS_space_charge_limit
     /\ a.ion_type_ref = "Pb"}

TwinInit ==
  \E a \in TwinArgs :
    LET new == InjectorChain(a)
        old == CERN_Injector_Chain(a)
    IN /\ args = Options(a)
       /\ self = Both(new.self, old.self)
       /\ constructed = (new.raised = "none" /\ old.raised = "none")
       /\ op = [name |-> "__init__", ion |-> a.ion_type]
       /\ raised = Both(new.raised, old.raised)
       /\ ret = Both(None, None)

\* the same call on the two objects, ending as new on the one and old on the other
TwinCall(name, ion, new, old) ==
  /\ self' = Both(new.self, old.self)
  /\ op' = [name |-> name, ion |-> ion]
  /\ raised' = Both(new.raised, old.raised)
  /\ ret' = Both(new.ret, old.ret)
  /\ UNCHANGED <<constructed, args>>

TwinInitIon ==
  /\ constructed
  /\ \E ion_type \in Ions :
       TwinCall("init_ion", ion_type,
                init_ion(self.InjectorChain, ion_type),
                CERN_init_ion(self.CERN_Injector_Chain, ion_type))

TwinSimulateInjection ==
  /\ constructed
  /\ TwinCall("simulate_injection_SpaceCharge_limit", NoArgument,
              Ok(simulate_injection_SpaceCharge_limit(self.InjectorChain), None),
              Ok(CERN_simulate_injection_SpaceCharge_limit(self.CERN_Injector_Chain),
                 None))

TwinCalculateLHC ==
  /\ constructed
  /\ TwinCall("calculate_LHC_bunch_intensity", NoArgument,
              calculate_LHC_bunch_intensity(self.InjectorChain),
              CERN_calculate_LHC_bunch_intensity(self.CERN_Injector_Chain))

TwinNext ==
  \/ TwinInitIon
  \/ TwinSimulateInjection
  \/ TwinCalculateLHC

TwinSpec == TwinInit /\ [][TwinNext]_vars

-----------------------------------------------------------------------------
(* Properties                                                              *)

IsCalc == op.name = "calculate_LHC_bunch_intensity" /\ raised = "none"

IsBatch ==
  op.name = "calculate_LHC_bunch_intensity_all_ion_species" /\ raised = "none"

\* the per-ion records the last call returned
ReturnedRecords ==
  IF IsCalc THEN {ret}
  ELSE IF IsBatch THEN {ret[k] : k \in 1..Len(ret)}
  ELSE {}

\* a > b on floats: False as soon as one side is NaN
Gt(a, b) == Lt(b, a)

HasEntry(ion) ==
  KeyOf(IonColumn(ion).Q, ion, IonColumn(ion).A) \in DOMAIN args.ion_energy_data

\* the six gammas (LEIR, PS, SPS; injection, extraction) of the ion itself:
\* its entry of the table of gammas, or the closed forms on its own column
C1_OwnGammas(ion) ==
  LET c == IonColumn(ion)
  IN IF args.use_gammas_ref
     THEN LET e == args.ion_energy_data[KeyOf(c.Q, ion, c.A)]
          IN <<e.LEIR_gamma_inj, e.LEIR_gamma_extr, e.PS_gamma_inj,
               e.PS_gamma_extr, e.SPS_gamma_inj, e.SPS_gamma_extr>>
     ELSE <<GammaOf(c.mass, self.E_kin_per_A_LEIR_inj, c.A),
            GammaOf(c.mass, self.E_kin_per_A_LEIR_extr, c.A),
            GammaOf(c.mass, self.E_kin_per_A_PS_inj, c.A),
            GammaOf(c.mass, self.E_kin_per_A_PS_extr, c.A),
            RigidityGamma([self EXCEPT !.Z = c.Z, !.Q = c.Q, !.mass_GeV = c.mass]),
            GammaOf(c.mass, self.E_kin_per_A_SPS_extr, c.A)>>

\* C1: every record calculate_LHC_bunch_intensity returns for an ion X of the
\* table was computed with the gammas of X itself (the six gammas the call
\* used are those of X's entry or of X's own column), never with gammas left
\* over from a previously active ion.
C1_NoStaleGamma ==
  (IsCalc /\ ret.Ion \in Columns(args.ion_data)) =>
    /\ args.use_gammas_ref => HasEntry(ret.Ion)
    /\ <<self.gamma_LEIR_inj, self.gamma_LEIR_extr, self.gamma_PS_inj,
         self.gamma_PS_extr, self.gamma_SPS_inj, self.gamma_SPS_extr>>
         = C1_OwnGammas(ret.Ion)
    /\ ret.LEIR_gamma = C1_OwnGammas(ret.Ion)[1]
    /\ ret.SPS_inj_gamma = C1_OwnGammas(ret.Ion)[5]

C3_BatchEqualsFresh ==
  IsBatch =>
    \A k \in 1..Len(ret) :
      LET fresh == InjectorChain(WithIon(args, args.ion_data[k]))
      IN /\ fresh.raised = "none"
         /\ ret[k] = calculate_LHC_bunch_intensity(fresh.self).ret

\* C4: a batch that succeeds returns as many records as the table has
\* columns, and the k-th record is the one of the k-th ion: it carries that
\* ion's identifier and that ion's own Q, Z, A and Linac3 current.
C4_BatchOrder ==
  IsBatch =>
    /\ Len(ret) = Len(args.ion_data)
    /\ \A k \in 1..Len(ret) :
         LET c == IonColumn(args.ion_data[k])
         IN /\ ret[k].Ion = args.ion_data[k]
            /\ ret[k].chargeBeforeStrip = c.Q
            /\ ret[k].atomicNumber = c.Z
            /\ ret[k].massNumber = c.A
            /\ ret[k].Linac3_current = c.current

C4_Witness ==
  /\ IsBatch
  /\ Len(ret) >= 2
  /\ ret[1].Ion = "O"
  /\ ret[2].Ion = "Pb"

\* C5: with SPS and slip-stacking transmissions in (0, 1], LHC_ionsPerBunch
\* of every returned record is not greater than SPS_spaceChargeLimit and not
\* greater than SPS_maxIntensityPerBunch, and SPS_accIntensity is the smaller of
\* those two (where both are numbers).
C5_FinalMinOfLimits ==
  \A r \in ReturnedRecords :
    (r.SPS_transmission \in 1..Scale /\ self.SPS_slipstacking_transmission \in 1..Scale)
    => /\ ~Gt(r.LHC_ionsPerBunch, r.SPS_spaceChargeLimit)
       /\ ~Gt(r.LHC_ionsPerBunch, r.SPS_maxIntensityPerBunch)
       /\ (IsNum(r.SPS_spaceChargeLimit) /\ IsNum(r.SPS_maxIntensityPerBunch))
          => /\ r.SPS_accIntensity \in {r.SPS_spaceChargeLimit, r.SPS_maxIntensityPerBunch}
             /\ r.SPS_accIntensity <= r.SPS_spaceChargeLimit
             /\ r.SPS_accIntensity <= r.SPS_maxIntensityPerBunch

\* a record in which the SPS space-charge limit binds, and the delivered
\* intensity is a positive number
C5_Witness ==
  /\ IsCalc
  /\ IsNum(ret.SPS_spaceChargeLimit) /\ IsNum(ret.SPS_maxIntensityPerBunch)
  /\ ret.SPS_spaceChargeLimit < ret.SPS_maxIntensityPerBunch
  /\ ret.LHC_ionsPerBunch > 0

\* what the PS hands over to the SPS, from the two values of the record
CarriedForwardPS(r) ==
  IonsPerBunchPS(self, r.PS_space_charge_limit, r.PS_ionsExtractedPerBunch)

\* C6 as stated: at every stage and for every configuration the intensity
\* carried forward does not exceed the stage's space-charge limit (LEIR, PS
\* and SPS).
C6_MinOfLimitsEveryStage ==
  \A r \in ReturnedRecords :
    /\ ~Gt(r.LEIR_extractedIonPerBunch, r.LEIR_space_charge_limit)
    /\ ~Gt(CarriedForwardPS(r), r.PS_space_charge_limit)
    /\ ~Gt(r.SPS_accIntensity, r.SPS_spaceChargeLimit)

\* C6 amended: the LEIR and SPS bounds hold for every configuration; the PS
\* bound (on the intensity handed to the SPS, and so on SPS_maxIntensityPerBunch)
\* holds when consider_PS_space_charge_limit is True.
C6_MinOfLimitsWhenConsidered ==
  \A r \in ReturnedRecords :
    /\ ~Gt(r.LEIR_extractedIonPerBunch, r.LEIR_space_charge_limit)
    /\ args.consider_PS_space_charge_limit =>
         /\ ~Gt(CarriedForwardPS(r), r.PS_space_charge_limit)
         /\ ~Gt(r.SPS_maxIntensityPerBunch, r.PS_space_charge_limit)
    /\ ~Gt(r.SPS_accIntensity, r.SPS_spaceChargeLimit)

\* the PS limit is considered and binds: the PS extracted more than its limit
C6_Witness ==
  /\ IsCalc
  /\ args.consider_PS_space_charge_limit
  /\ Gt(ret.PS_ionsExtractedPerBunch, ret.PS_space_charge_limit)
  /\ Gt(ret.LEIR_maxIntensity, ret.LEIR_space_charge_limit)

InvalidGamma(g) == g # NaN /\ g <= Scale

\* C7: when the gamma at LEIR extraction, PS injection or SPS injection that
\* a call of calculate_LHC_bunch_intensity used is <= 1, the call fails or
\* its LHC_ionsPerBunch is NaN.
C7_InvalidGammaSurfaced ==
  (IsCalc /\ (\/ InvalidGamma(self.gamma_LEIR_extr)
              \/ InvalidGamma(self.gamma_PS_inj)
              \/ InvalidGamma(self.gamma_SPS_inj)))
  => ret.LHC_ionsPerBunch = NaN

\* the record the caller gets for ion_type by init_ion and then
\* calculate_LHC_bunch_intensity on the simulator s
PerIonRecord(s, ion_type) ==
  LET r == init_ion(s, ion_type)
  IN IF r.raised # "none" THEN None
     ELSE calculate_LHC_bunch_intensity(r.self).ret

\* C8: in lookup-table mode, init_ion of an ion of the table whose key has no
\* entry raises KeyError and returns no record, the records the caller then
\* gets for the other ions one by one are those it would have got before the
\* failure, and a batch over a table with such an ion returns no record.
C8_LookupKeyNotFound ==
  [][(constructed /\ args.use_gammas_ref) =>
       /\ (/\ op'.name = "init_ion"
           /\ op'.ion \in Columns(args.ion_data)
           /\ ~HasEntry(op'.ion))
          => /\ raised' = "KeyError"
             /\ ret' = None
             /\ \A other \in Columns(args.ion_data) \ {op'.ion} :
                  PerIonRecord(self', other) = PerIonRecord(self, other)
       /\ (/\ op'.name = "calculate_LHC_bunch_intensity_all_ion_species"
           /\ \E ion \in Columns(args.ion_data) : ~HasEntry(ion))
          => /\ raised' # "none"
             /\ ret' = None]_vars

\* init_ion failed on the missing key while another ion of the table has a
\* record to give
C8_Witness ==
  /\ args.use_gammas_ref
  /\ op.name = "init_ion"
  /\ op.ion \in Columns(args.ion_data)
  /\ ~HasEntry(op.ion)
  /\ raised = "KeyError"
  /\ \E other \in Columns(args.ion_data) \ {op.ion} :
       PerIonRecord(self, other) # None

\* C9: a construction with a reference species other than 'Pb' fails and sets
\* no reference constant; with 'Pb', a construction that reaches the
\* reference initialization completes it and the simulator is constructed.
C9_ReferenceSpecies ==
  /\ args.ion_type_ref # "Pb" =>
       /\ ~constructed
       /\ raised # "none"
       /\ DOMAIN self \cap ReferenceAttrs = {}
  /\ (args.ion_type_ref = "Pb" /\ Has(self, "ion_type_ref")) =>
       /\ constructed
       /\ ReferenceAttrs \subseteq DOMAIN self

\* the construction reached the reference initialization and failed there
C9_Witness ==
  /\ args.ion_type_ref # "Pb"
  /\ Has(self, "ion_type_ref")
  /\ raised = "ValueError"

\* C10: init_ion (and so the construction) of an ion whose column lacks a
\* required field fails, and no record is returned for such an ion.
C10_MissingFieldFails ==
  /\ (/\ op.name \in {"init_ion", "__init__"}
      /\ op.ion \in Columns(args.ion_data)
      /\ MissingFields(op.ion) # {})
     => raised # "none"
  /\ \A r \in ReturnedRecords : MissingFields(r.Ion) = {}

\* C11: in auto mode (nPulsesLEIR = 0), every record returned for an ion with
\* a positive Linac3 intensity per pulse has at most 7 LEIR pulses.
C11_AutoPulsesCapped ==
  \A r \in ReturnedRecords :
    (args.nPulsesLEIR = 0 /\ Gt(r.Linac3_ionsPerPulse, 0))
    => r.LEIR_numberofPulses <= 7

\* auto mode, and the pulses of Linac3 are so weak that more than 7 would be
\* needed to reach the LEIR space-charge limit
C11_Witness ==
  /\ IsCalc
  /\ args.nPulsesLEIR = 0
  /\ Gt(ret.Linac3_ionsPerPulse, 0)
  /\ Ceil(PulsesNeeded(self, ret.LEIR_space_charge_limit, ret.Linac3_ionsPerPulse)) > 7
  /\ ret.LEIR_numberofPulses = 7

\* C12: a returned record has the field LEIR_PS_strippingEfficiency exactly
\* when the simulator was constructed with LEIR_PS_strip, and for an ion of
\* the table the field is the LEIR-PS stripping efficiency of that ion's own
\* column.
C12_StrippingEfficiencyField ==
  \A r \in ReturnedRecords :
    /\ ("LEIR_PS_strippingEfficiency" \in DOMAIN r) <=> args.LEIR_PS_strip
    /\ (args.LEIR_PS_strip /\ r.Ion \in Columns(args.ion_data))
       => r.LEIR_PS_strippingEfficiency = IonColumn(r.Ion).strip_eff

\* a batch with early stripping over two ions of different efficiencies
C12_Witness ==
  /\ IsBatch
  /\ args.LEIR_PS_strip
  /\ Len(ret) >= 2
  /\ IsNum(ret[1].LEIR_PS_strippingEfficiency)
  /\ IsNum(ret[2].LEIR_PS_strippingEfficiency)
  /\ ret[1].LEIR_PS_strippingEfficiency # ret[2].LEIR_PS_strippingEfficiency

\* the factor between what the PS hands over and SPS_maxIntensityPerBunch
C13_BoundaryFactor(r) ==
  IF Eq(r.atomicNumber, r.chargeBeforeStrip) \/ args.LEIR_PS_strip
  THEN Scale
  ELSE 900

\* C13: SPS_maxIntensityPerBunch of every returned record is what the PS
\* hands over times 1.0 when the ion is fully stripped (Q = Z) or early
\* stripping is configured, and times 0.9 otherwise.
C13_StrippingAtSPSInjection ==
  \A r \in ReturnedRecords :
    r.SPS_maxIntensityPerBunch = FMul(CarriedForwardPS(r), C13_BoundaryFactor(r))

\* a batch without early stripping over a fully stripped ion (factor 1.0)
\* and a partially stripped ion (factor 0.9)
C13_Witness ==
  /\ IsBatch
  /\ ~args.LEIR_PS_strip
  /\ \E i, j \in 1..Len(ret) :
       /\ ret[i].atomicNumber = ret[i].chargeBeforeStrip
       /\ ret[j].atomicNumber # ret[j].chargeBeforeStrip
       /\ Gt(ret[i].SPS_maxIntensityPerBunch, 0)
       /\ Gt(CarriedForwardPS(ret[j]), ret[j].SPS_maxIntensityPerBunch)

\* the charge the ion has at the stripper foil the simulator is configured for
C14_ChargeAtStripBoundary(r) ==
  IF args.LEIR_PS_strip THEN r.atomicNumber ELSE r.chargeBeforeStrip

\* the record is of the lead reference: Z = 82, Q = 54, A = 208, 193.687 GeV
C14_IsReferenceLike(r) ==
  /\ r.atomicNumber = 82 /\ r.chargeBeforeStrip = 54 /\ r.massNumber = 208
  /\ IonColumn(r.Ion).mass = 1936870

C15_TargetCharge == IF args.fully_stripped THEN self.Z ELSE self.Q

\* C15: linearIntensityLimit called with m = m_0, gamma = gamma_0 > 1 and
\* charge_0 the charge the flag selects (Z if fully_stripped, else Q) returns
\* Nb_0.
C15_ScalerIdentity ==
  (/\ op.name = "linearIntensityLimit"
   /\ args.m = args.m_0
   /\ args.gamma = args.gamma_0
   /\ args.gamma_0 > Scale
   /\ args.charge_0 = C15_TargetCharge)
  => ret = args.Nb_0

\* the identity on a partially stripped ion, scaled to its charge Q
C15_Witness ==
  /\ op.name = "linearIntensityLimit"
  /\ args.m = args.m_0
  /\ args.gamma = args.gamma_0
  /\ ~args.fully_stripped
  /\ self.Q # self.Z
  /\ args.charge_0 = self.Q
  /\ args.Nb_0 > 1
  /\ ret = args.Nb_0

\* the attributes leir, ps and sps assign
C16_LeirAttrs == {"gamma_LEIR_inj", "gamma_LEIR_extr", "Nb_LEIR_extr", "Nq_LEIR_extr"}
C16_PsAttrs == {"gamma_PS_inj", "gamma_PS_extr", "Nb_PS_extr", "Nq_PS_extr"}
C16_SpsAttrs == {"gamma_SPS_inj", "gamma_SPS_extr", "Nb_SPS_extr", "Nq_SPS_extr"}

\* the attributes of attrs the object s has, and their values
C16_View(s, attrs) == [a \in attrs \cap DOMAIN s |-> s[a]]

\* the object s without any attribute of a stage
C16_Scrub(s) ==
  [a \in DOMAIN s \ (C16_LeirAttrs \cup C16_PsAttrs \cup C16_SpsAttrs) |-> s[a]]

\* C16: the attributes of the LEIR stage change only in the first step of a
\* call of calculate_LHC_bunch_intensity, those of the PS only in the step
\* after it and those of the SPS only in the step after that; when the
\* aggregation begins every stage attribute is the one the stages of this call
\* wrote for the active ion; and the aggregation writes no attribute and
\* returns what it returns on an object that had no stage attribute before
\* the call.
C16_StagesBeforeAggregation ==
  [][/\ C16_View(self', C16_LeirAttrs) # C16_View(self, C16_LeirAttrs)
        => Idle /\ op'.name = "calculate_LHC_bunch_intensity" /\ op'.at = "ps"
     /\ C16_View(self', C16_PsAttrs) # C16_View(self, C16_PsAttrs)
        => At("ps") /\ op'.at = "sps"
     /\ C16_View(self', C16_SpsAttrs) # C16_View(self, C16_SpsAttrs)
        => At("sps") /\ op'.at = "aggregate"
     /\ At("sps")
        => self' = simulate_injection_SpaceCharge_limit(C16_Scrub(self'))
     /\ At("aggregate")
        => /\ self' = self
           /\ raised' = calculate_LHC_bunch_intensity(C16_Scrub(self)).raised
           /\ ret' = calculate_LHC_bunch_intensity(C16_Scrub(self)).ret]_vars

\* a call has run leir for the active ion while the attributes of the PS are
\* still those an earlier call wrote for another ion
C16_Witness ==
  /\ At("ps")
  /\ ~args.use_gammas_ref
  /\ Has(self, "gamma_PS_inj")
  /\ self.gamma_PS_inj # self.gamma_LEIR_extr

\* the reference constants: the reference mass, charges, intensities and
\* gammas, and the six kinetic energies per nucleon
C17_ReferenceConstants ==
  ReferenceAttrs \cup
  {"E_kin_per_A_LEIR_inj", "E_kin_per_A_LEIR_extr", "E_kin_per_A_PS_inj",
   "E_kin_per_A_PS_extr", "E_kin_per_A_SPS_inj", "E_kin_per_A_SPS_extr"}

\* C17: on a constructed simulator every reference constant is set, and no
\* operation (init_ion, simulate_injection_SpaceCharge_limit,
\* calculate_LHC_bunch_intensity, the two batch operations) changes one.
C17_ReferenceConstantsFrozen ==
  [][constructed =>
       \A a \in C17_ReferenceConstants :
         /\ a \in DOMAIN self
         /\ a \in DOMAIN self'
         /\ self'[a] = self[a]]_vars

\* a batch has left the simulator on an ion that has neither the mass nor
\* the SPS injection gamma of the reference
C17_Witness ==
  /\ IsBatch
  /\ self.mass_GeV # self.m0_GeV
  /\ self.gamma_SPS_inj # self.gamma0_SPS_inj
  /\ self.m0_GeV = 1936870
  /\ self.E_kin_per_A_SPS_inj = 59000

\* the gamma of an ion of the given charge and mass that has the magnetic
\* rigidity of the reference at SPS injection
C18_SameRigidity(charge, mass) ==
  LET r == FDiv(FDiv(charge, 54), FDiv(mass, self.m0_GeV))
  IN FSqrt(Scale + FMul(FMul(r, r),
                        FMul(self.gamma0_SPS_inj, self.gamma0_SPS_inj) - Scale))

\* the SPS injection gamma the configuration prescribes for an ion: the
\* value of its entry in lookup-table mode (an ion without entry has none),
\* the rigidity formula on Z with early stripping and on Q without otherwise
C18_PrescribedGamma(ion) ==
  LET c == IonColumn(ion)
  IN IF args.use_gammas_ref
     THEN IF HasEntry(ion)
          THEN args.ion_energy_data[KeyOf(c.Q, ion, c.A)].SPS_gamma_inj
          ELSE NaN
     ELSE C18_SameRigidity(IF args.LEIR_PS_strip THEN c.Z ELSE c.Q, c.mass)

\* the records of ions that have a prescribed gamma report it, and their SPS
\* space-charge limit is the scaler's value at that gamma
C18_WithEntry ==
  \A r \in ReturnedRecords :
    (r.Ion \in Columns(args.ion_data) /\ (args.use_gammas_ref => HasEntry(r.Ion))) =>
      LET c == IonColumn(r.Ion)
          g == C18_PrescribedGamma(r.Ion)
      IN /\ r.SPS_inj_gamma = g
         /\ r.SPS_spaceChargeLimit =
              linearIntensityLimit([self EXCEPT !.Z = c.Z, !.Q = c.Q], c.mass, g,
                                   self.Nb0_SPS_extr, self.Q0_SPS, self.m0_GeV,
                                   self.gamma0_SPS_inj, TRUE)

\* C18: every record returned for an ion of the table reports as SPS
\* injection gamma the value of the ion's own entry of the lookup table when
\* use_gammas_ref is True (the rigidity formula is not applied) and the
\* rigidity formula, on Z with early stripping and on Q otherwise, when it is
\* False; the SPS space-charge limit of the record is the scaler's value at
\* that gamma.
C18_SPSInjectionGamma ==
  /\ \A r \in ReturnedRecords :
       (r.Ion \in Columns(args.ion_data) /\ args.use_gammas_ref) => HasEntry(r.Ion)
  /\ C18_WithEntry

\* the scaler's value for an explicit target charge
C19_ScaledTo(charge, gamma, Nb_0, charge_0, gamma_0) ==
  linearIntensityLimit([self EXCEPT !.Z = charge, !.Q = charge], self.mass_GeV,
                       gamma, Nb_0, charge_0, self.m0_GeV, gamma_0, TRUE)

\* C19: the PS space-charge limit of a record calculate_LHC_bunch_intensity
\* returns is the scaler's value for the target charge Z when LEIR_PS_strip
\* is configured and Q otherwise, at the PS injection gamma of the simulator
\* and from the reference values Nb0_PS_extr, Q0_PS, m0_GeV, gamma0_PS_inj.
C19_PSLimitFullyStrippedIffEarlyStrip ==
  IsCalc =>
    ret.PS_space_charge_limit =
      C19_ScaledTo(IF args.LEIR_PS_strip THEN self.Z ELSE self.Q,
                   self.gamma_PS_inj, self.Nb0_PS_extr, self.Q0_PS,
                   self.gamma0_PS_inj)

\* early stripping on an ion with Q < Z: the limit differs from the one for Q
C19_Witness ==
  /\ IsCalc
  /\ args.LEIR_PS_strip
  /\ self.Q < self.Z
  /\ ret.PS_space_charge_limit # NaN
  /\ ret.PS_space_charge_limit #
       C19_ScaledTo(self.Q, self.gamma_PS_inj, self.Nb0_PS_extr, self.Q0_PS,
                    self.gamma0_PS_inj)

\* x is a minimum of a and b: one of the two and greater than neither
C20_IsMinOf(x, a, b) == x \in {a, b} /\ ~Gt(x, a) /\ ~Gt(x, b)

\* what leaves the PS before any cap, from the fields of the record
C20_Uncapped(r) ==
  NDiv(FMul(FMul(r.LEIR_extractedIonPerBunch,
                 IF args.LEIR_PS_strip THEN r.LEIR_PS_strippingEfficiency
                 ELSE Scale),
            r.PS_transmission),
       r.PS_splitting)

\* C20: in every returned record SPS_maxIntensityPerBunch is the PS output
\* times the factor of the PS-SPS boundary, where the PS output is a minimum
\* of PS_space_charge_limit and PS_ionsExtractedPerBunch when
\* consider_PS_space_charge_limit is True and PS_ionsExtractedPerBunch itself
\* when it is False; PS_ionsExtractedPerBunch is the uncapped value in both
\* cases.
C20_PSOutput ==
  \A r \in ReturnedRecords :
    /\ r.PS_ionsExtractedPerBunch = C20_Uncapped(r)
    /\ \E out \in {r.PS_space_charge_limit, r.PS_ionsExtractedPerBunch} :
         /\ r.SPS_maxIntensityPerBunch = FMul(out, C13_BoundaryFactor(r))
         /\ IF args.consider_PS_space_charge_limit
            THEN C20_IsMinOf(out, r.PS_space_charge_limit,
                             r.PS_ionsExtractedPerBunch)
            ELSE out = r.PS_ionsExtractedPerBunch

\* the option is on and the cap binds: the record still reports the larger,
\* uncapped value
C20_Witness ==
  /\ IsCalc
  /\ args.consider_PS_space_charge_limit
  /\ Gt(ret.PS_ionsExtractedPerBunch, ret.PS_space_charge_limit)
  /\ ret.SPS_maxIntensityPerBunch =
       FMul(ret.PS_space_charge_limit, C13_BoundaryFactor(ret))
  /\ ret.SPS_maxIntensityPerBunch #
       FMul(ret.PS_ionsExtractedPerBunch, C13_BoundaryFactor(ret))

\* the stage functions have run on the active ion
C21_StagesRan ==
  /\ raised = "none"
  /\ op.name \in {"simulate_injection_SpaceCharge_limit",
                   "calculate_LHC_bunch_intensity"}

\* the extracted bunch and charge intensities of a stage are the scaler's
\* value for the given charge state and that value times the charge state
C21_StageUses(charge, Nb, Nq, gamma, Nb_0, charge_0, gamma_0) ==
  /\ Nb = C19_ScaledTo(charge, gamma, Nb_0, charge_0, gamma_0)
  /\ Nq = NMul(Nb, charge)

\* LEIR holds the ion at charge Q
C21_Ring1 ==
  C21_StagesRan =>
    C21_StageUses(self.Q, self.Nb_LEIR_extr, self.Nq_LEIR_extr,
                  self.gamma_LEIR_extr, self.Nb0_LEIR_extr, self.Q0_LEIR,
                  self.gamma0_LEIR_extr)

\* the PS holds the ion at charge Z with early stripping and at Q without
C21_Ring2 ==
  C21_StagesRan =>
    C21_StageUses(IF args.LEIR_PS_strip THEN self.Z ELSE self.Q,
                  self.Nb_PS_extr, self.Nq_PS_extr,
                  self.gamma_PS_extr, self.Nb0_PS_extr, self.Q0_PS,
                  self.gamma0_PS_extr)

\* the SPS holds the ion at charge Z
C21_Ring3 ==
  C21_StagesRan =>
    C21_StageUses(self.Z, self.Nb_SPS_extr, self.Nq_SPS_extr,
                  self.gamma_SPS_inj, self.Nb0_SPS_extr, self.Q0_SPS,
                  self.gamma0_SPS_inj)

\* C21: after leir(), ps() and sps() have run, the extracted charge
\* intensity of every stage is its extracted bunch intensity times the charge
\* state of the ion in that stage, and the bunch intensity is the scaler's
\* value for that charge state: Q in LEIR, Z in the PS with LEIR_PS_strip and
\* Q without, Z in the SPS.
C21_StageChargeStates == C21_Ring1 /\ C21_Ring2 /\ C21_Ring3

\* the fields the records of the two classes share: all but
\* PS_space_charge_limit, which only InjectorChain reports
C22_SharedFields(new, old) == DOMAIN new \cap DOMAIN old

\* C22: with use_gammas_ref = False and consider_PS_space_charge_limit =
\* False, calculate_LHC_bunch_intensity of InjectorChain and of
\* CERN_Injector_Chain end alike on the same ion and options: both raise the
\* same exception, or both return and their records have the same value in
\* every field they share, the record of InjectorChain having
\* PS_space_charge_limit in addition.
C22_ImplementationsAgree ==
  op.name = "calculate_LHC_bunch_intensity" =>
    /\ raised.InjectorChain = raised.CERN_Injector_Chain
    /\ raised.InjectorChain = "none" =>
         /\ DOMAIN ret.InjectorChain =
              DOMAIN ret.CERN_Injector_Chain \cup {"PS_space_charge_limit"}
         /\ \A f \in C22_SharedFields(ret.InjectorChain, ret.CERN_Injector_Chain) :
              ret.InjectorChain[f] = ret.CERN_Injector_Chain[f]

\* both have returned a record whose PS output exceeds the PS limit of
\* InjectorChain, and the PS reference intensities of the two objects differ
C22_Witness ==
  /\ op.name = "calculate_LHC_bunch_intensity"
  /\ raised.InjectorChain = "none"
  /\ raised.CERN_Injector_Chain = "none"
  /\ self.InjectorChain.Nb0_PS_extr # self.CERN_Injector_Chain.Nb0_PS_extr
  /\ Gt(ret.InjectorChain.PS_ionsExtractedPerBunch,
        ret.InjectorChain.PS_space_charge_limit)
  /\ Gt(ret.CERN_Injector_Chain.LHC_ionsPerBunch, 0)
  /\ ret.CERN_Injector_Chain.LHC_ionsPerBunch = ret.InjectorChain.LHC_ionsPerBunch

\* the intensity one Linac3 pulse injects into LEIR, from the record
C23_PerPulse(r) == FMul(r.Linac3_ionsPerPulse, r.LEIR_injection_efficiency)

\* n pulses of p ions each are the least number that reaches L, or 7 pulses
\* that do not reach it
C23_LeastFilling(n, p, L) ==
  /\ 1 <= n /\ n <= 7
  /\ n < 7 => (NMul(p, n) >= L /\ NMul(p, n - 1) < L)
  /\ NMul(p, n) < L => n = 7

\* C23: in auto mode (nPulsesLEIR = 0), when the intensity injected per pulse
\* p and the LEIR space-charge limit L of a returned record are positive, its
\* pulse count n is between 1 and 7, n < 7 implies n*p >= L > (n-1)*p, and
\* n*p < L implies n = 7.
C23_AutoPulseCount ==
  \A r \in ReturnedRecords :
    (/\ args.nPulsesLEIR = 0
     /\ Gt(C23_PerPulse(r), 0)
     /\ Gt(r.LEIR_space_charge_limit, 0)) =>
      C23_LeastFilling(r.LEIR_numberofPulses, C23_PerPulse(r),
                       r.LEIR_space_charge_limit)

\* a batch in auto mode over an ion that fills LEIR with fewer than 7 pulses
\* and more than 1, and an ion that 7 pulses do not fill
C23_Witness ==
  /\ IsBatch
  /\ args.nPulsesLEIR = 0
  /\ \E i, j \in 1..Len(ret) :
       /\ ret[i].LEIR_numberofPulses \in 2..6
       /\ Gt(ret[i].LEIR_maxIntensity, ret[i].LEIR_space_charge_limit)
       /\ ret[j].LEIR_numberofPulses = 7
       /\ Gt(ret[j].LEIR_space_charge_limit, ret[j].LEIR_maxIntensity)
       /\ Gt(ret[j].LEIR_maxIntensity, 0)

\* the gammas leir(), ps() and sps() have assigned
C24_StageGammas ==
  {self.gamma_LEIR_inj, self.gamma_LEIR_extr, self.gamma_PS_inj,
   self.gamma_PS_extr, self.gamma_SPS_inj, self.gamma_SPS_extr}

\* the active ion has mass > 0, A > 0 and 0 < Q <= Z
C24_ValidIon ==
  /\ Gt(self.mass_GeV, 0) /\ Gt(self.A, 0)
  /\ Gt(self.Q, 0) /\ ~Gt(self.Q, self.Z) /\ IsNum(self.Z)

\* C24: after the stage functions have run in formula mode on a valid ion,
\* each of the six gammas, the rigidity-scaled SPS injection gamma included,
\* is a number strictly greater than 1; so a gamma that is not (beta
\* undefined or zero) is met in lookup-table mode only.
C24_FormulaGammasAboveOne ==
  (C21_StagesRan /\ C24_ValidIon) =>
    /\ ~args.use_gammas_ref => \A g \in C24_StageGammas : Gt(g, Scale)
    /\ (\E g \in C24_StageGammas : InvalidGamma(g)) => args.use_gammas_ref

\* formula mode with early stripping on an ion with Q < Z: its SPS injection
\* gamma comes from the rigidity formula on Z and is not that of the reference
C24_Witness ==
  /\ C21_StagesRan /\ C24_ValidIon
  /\ ~args.use_gammas_ref
  /\ args.LEIR_PS_strip
  /\ self.Q < self.Z
  /\ self.gamma_SPS_inj = C18_SameRigidity(self.Z, self.mass_GeV)
  /\ self.gamma_SPS_inj # self.gamma0_SPS_inj
  /\ Gt(self.gamma_LEIR_inj, Scale)

C25_Batches ==
  {"calculate_LHC_bunch_intensity_all_ion_species",
   "simulate_SpaceCharge_intensity_limit_all_ions"}

C25_Options ==
  {"nPulsesLEIR", "LEIR_bunches", "PS_splitting", "LEIR_PS_strip",
   "consider_PS_space_charge_limit", "use_gammas_ref"}

\* the last ion of the table the simulator was constructed with
C25_LastIon == args.ion_data[Len(args.ion_data)]

\* C25: a batch operation that completes leaves the last ion of the table
\* active and every configuration option as it was; a
\* calculate_LHC_bunch_intensity that follows it returns the record of that
\* last ion (after calculate_LHC_bunch_intensity_all_ion_species, the last
\* record of the batch).
C25_BatchLeavesLastIonActive ==
  [][/\ (op'.name \in C25_Batches /\ raised' = "none") =>
          /\ self'.ion_type = C25_LastIon
          /\ self'.Z = IonColumn(C25_LastIon).Z
          /\ self'.mass_GeV = IonColumn(C25_LastIon).mass
          /\ \A o \in C25_Options : self'[o] = self[o]
     /\ (/\ op.name \in C25_Batches /\ raised = "none"
         /\ op'.name = "calculate_LHC_bunch_intensity" /\ raised' = "none") =>
          /\ ret'.Ion = C25_LastIon
          /\ ret'.atomicNumber = IonColumn(C25_LastIon).Z
          /\ IsBatch => ret' = ret[Len(ret)]]_vars

\* a batch over two different ions has completed: the second one is active,
\* whichever ion was active before
C25_Witness ==
  /\ IsBatch
  /\ Len(args.ion_data) = 2
  /\ args.ion_data[1] # args.ion_data[2]
  /\ self.ion_type = args.ion_data[2]
  /\ ret[2].Ion = self.ion_type
  /\ ret[1].Ion # self.ion_type

====
